---- MODULE Spec2Model ----
(***************************************************************************)
(* Model of the 8086 MOV disassembler.                                     *)
(*                                                                         *)
(*   src/src/mode.rs         Mode::from                                    *)
(*   src/src/instruction.rs  the four-form decoder (Instruction::try_from  *)
(*                           and the try_parse_* functions)                *)
(*   src/src/main.rs         Register::from_bits, the two-form decoder and *)
(*                           renderer of that file, and the disassemble    *)
(*                           loop that drives them                         *)
(*                                                                         *)
(* A BitSlice<u8, Msb0> is a sequence of BOOLEAN; bits[i] of the source is *)
(* Bit(bits, i).  An out-of-range index or range, an `unimplemented!`, an  *)
(* `unwrap` of None/Err are panics: the decoder's outcome is then the      *)
(* record Panic, and the driver's pc becomes "panic".                      *)
(***************************************************************************)
EXTENDS Integers, Sequences, FiniteSets, TLC

VARIABLES
    bits,           \* the window handed to the decoder (try_from's argument)
    parsed,         \* what the decoder call produced (Ok / Err / Panic)
    pc,             \* position of the running function
    input,          \* disassemble: the whole input, as bits
    signed_output,  \* disassemble: its second parameter
    bit_ptr,        \* disassemble: the current bit offset
    strs,           \* disassemble: the lines pushed so far
    output          \* disassemble: the returned string, <<>> until it returns

vars == <<bits, parsed, pc, input, signed_output, bit_ptr, strs, output>>

\* ------------------------------------------------------------------ bounds
\* Longest window offered to the four-form decoder, in bytes.
MaxWindowBytes == 6
\* Longest input given to disassemble, in bytes.
MaxInputBytes == 5

\* ------------------------------------------------------------ bit slices
Pow2(n) == 2 ^ n

\* input.view_bits::<Msb0>(): bit j of the view is bit (7 - j % 8) of byte j / 8.
ViewBits(bytes) ==
    [j \in 1..(8 * Len(bytes)) |->
        ((bytes[((j - 1) \div 8) + 1] \div Pow2(7 - ((j - 1) % 8))) % 2) = 1]

\* bits[i], for an index the caller knows to be in range.
Bit(b, i) == b[i + 1]

\* A load yields <<v>>, or <<>> when it panics (its range is not in the slice,
\* or is not as wide as the integer loaded).
Loaded(v) == <<v>>
LoadPanics == <<>>

RECURSIVE MsbValue(_, _, _)
\* The unsigned value of bits lo..hi-1, most significant bit first.
MsbValue(b, lo, hi) ==
    IF hi <= lo THEN 0
    ELSE 2 * MsbValue(b, lo, hi - 1) + (IF Bit(b, hi - 1) THEN 1 ELSE 0)

\* bits[lo..hi].load::<u8>() for an 8-bit range.
LoadU8(b, lo, hi) ==
    IF hi > Len(b) \/ hi - lo # 8 THEN LoadPanics
    ELSE Loaded(MsbValue(b, lo, hi))

\* bits[lo..hi].load::<u16>() for a 16-bit range over two u8 elements:
\* load is load_le on the little-endian targets the program is built for,
\* the first element being the low byte.
LoadU16(b, lo, hi) ==
    IF hi > Len(b) \/ hi - lo # 16 THEN LoadPanics
    ELSE Loaded(MsbValue(b, lo, lo + 8) + 256 * MsbValue(b, lo + 8, hi))

\* -------------------------------------------------------------- mode.rs
ModeFrom(b0, b1) ==
    CASE b0 /\ b1 -> "Register"
      [] b0 /\ ~b1 -> "Displace16Bits"
      [] ~b0 /\ b1 -> "Displace8Bits"
      [] ~b0 /\ ~b1 -> "Memory"

\* ------------------------------------------------------------ Register
\* The table with SP and BP exchanged.
from_bits_sp_bp_exchanged(b, wide) ==
    LET code == (IF b[1] THEN 4 ELSE 0) + (IF b[2] THEN 2 ELSE 0)
                    + (IF b[3] THEN 1 ELSE 0)
    IN  IF wide THEN <<"AX", "CX", "DX", "BX", "BP", "SP", "SI", "DI">>[code + 1]
        ELSE <<"AL", "CL", "DL", "BL", "AH", "CH", "DH", "BH">>[code + 1]

\* Register::from_bits
from_bits(b, wide) ==
    LET t == <<b[1], b[2], b[3], wide>> IN
    CASE t = <<FALSE, FALSE, FALSE, FALSE>> -> "AL"
      [] t = <<FALSE, FALSE, FALSE, TRUE>> -> "AX"
      [] t = <<TRUE, FALSE, FALSE, FALSE>> -> "AH"
      [] t = <<TRUE, FALSE, FALSE, TRUE>> -> "SP"
      [] t = <<FALSE, TRUE, TRUE, FALSE>> -> "BL"
      [] t = <<FALSE, TRUE, TRUE, TRUE>> -> "BX"
      [] t = <<TRUE, TRUE, TRUE, FALSE>> -> "BH"
      [] t = <<TRUE, TRUE, TRUE, TRUE>> -> "DI"
      [] t = <<FALSE, FALSE, TRUE, FALSE>> -> "CL"
      [] t = <<FALSE, FALSE, TRUE, TRUE>> -> "CX"
      [] t = <<TRUE, FALSE, TRUE, FALSE>> -> "CH"
      [] t = <<TRUE, FALSE, TRUE, TRUE>> -> "BP"
      [] t = <<FALSE, TRUE, FALSE, FALSE>> -> "DL"
      [] t = <<FALSE, TRUE, FALSE, TRUE>> -> "DX"
      [] t = <<TRUE, TRUE, FALSE, FALSE>> -> "DH"
      [] t = <<TRUE, TRUE, FALSE, TRUE>> -> "SI"

\* ------------------------------------------------- decoder outcomes
\* Option<u16>: None is <<>>, Some(v) is <<v>>.
None == <<>>
Some(v) == <<v>>

\* Every outcome is a record of the same shape; `form` is the form the
\* dispatch selected ("none" when no pattern matched), kept also when the
\* selected parser fails.
Outcome(tag, form) ==
    [tag |-> tag, form |-> form, d |-> FALSE, wide |-> FALSE, mod |-> "Memory",
     reg |-> "AL", rm |-> <<FALSE, FALSE, FALSE>>, disp |-> None, data |-> 0,
     addr |-> 0, to_memory |-> FALSE, bytes_used |-> 0]

\* Err(ParseInstructionError::new(..)) returned by the parser of `form`.
ParseError(form) == Outcome("Err", form)
\* The call did not return: index out of range, or unimplemented!.
Panic(form) == Outcome("Panic", form)
\* Before any call.
NotCalled == Outcome("NotCalled", "none")

\* ------------------------------------------- instruction.rs: the parsers
\* rm = 110: with mode Memory, the direct-address encoding.
Direct == <<TRUE, TRUE, FALSE>>

\* disp = Some(<load>); bytes_used = n  (a panicking load ends the call).
WithDisp(ins, loaded, n) ==
    IF loaded = LoadPanics THEN Panic(ins.form)
    ELSE [ins EXCEPT !.disp = Some(loaded[1]), !.bytes_used = n]

\* The body shared by the two copies of try_parse_register_memory_mov; hi is
\* the end of the range the 16-bit displacement is loaded from.
register_memory_mov(b, hi) ==
    IF Len(b) < 16 THEN ParseError("RegisterMemoryMov")
    ELSE
        LET wide == Bit(b, 7)
            mod == ModeFrom(Bit(b, 8), Bit(b, 9))
            rm == <<Bit(b, 13), Bit(b, 14), Bit(b, 15)>>
            ins == [Outcome("Ok", "RegisterMemoryMov") EXCEPT
                       !.d = Bit(b, 6), !.wide = wide, !.mod = mod,
                       !.reg = from_bits(<<Bit(b, 10), Bit(b, 11), Bit(b, 12)>>, wide),
                       !.rm = rm, !.disp = None, !.bytes_used = 2]
        IN  CASE mod = "Displace8Bits" ->
                    IF Len(b) < 24 THEN ParseError("RegisterMemoryMov")
                    ELSE WithDisp(ins, LoadU8(b, 16, 24), 3)
              [] mod = "Displace16Bits" ->
                    IF Len(b) < 32 THEN ParseError("RegisterMemoryMov")
                    ELSE WithDisp(ins, LoadU16(b, 16, hi), 4)
              [] mod = "Memory" ->
                    IF rm = Direct
                    THEN IF Len(b) < 32 THEN ParseError("RegisterMemoryMov")
                         ELSE WithDisp(ins, LoadU16(b, 16, hi), 4)
                    ELSE ins
              [] OTHER -> ins

\* The parser with the direct-address case (mode Memory, rm 110) forgotten.
try_parse_register_memory_mov_no_direct(b) ==
    LET r == register_memory_mov(b, 32) IN
    IF r.tag # "Err" /\ Len(b) >= 16 /\ ModeFrom(Bit(b, 8), Bit(b, 9)) = "Memory"
    THEN [Outcome("Ok", "RegisterMemoryMov") EXCEPT
             !.d = Bit(b, 6), !.wide = Bit(b, 7), !.mod = "Memory",
             !.reg = from_bits(<<Bit(b, 10), Bit(b, 11), Bit(b, 12)>>, Bit(b, 7)),
             !.rm = <<Bit(b, 13), Bit(b, 14), Bit(b, 15)>>, !.bytes_used = 2]
    ELSE r

\* instruction.rs: the displacement is bits[16..32].
try_parse_register_memory_mov(b) == register_memory_mov(b, 32)

try_parse_immediate_register_mov(b) ==
    IF Len(b) < 16 THEN ParseError("ImmediateRegisterMov")
    ELSE
        LET wide == Bit(b, 4)
            ins == [Outcome("Ok", "ImmediateRegisterMov") EXCEPT
                       !.wide = wide,
                       !.reg = from_bits(<<Bit(b, 5), Bit(b, 6), Bit(b, 7)>>, wide)]
        IN  IF wide
            THEN IF Len(b) < 24 THEN ParseError("ImmediateRegisterMov")
                 ELSE LET data == LoadU16(b, 8, 24) IN
                      IF data = LoadPanics THEN Panic("ImmediateRegisterMov")
                      ELSE [ins EXCEPT !.data = data[1], !.bytes_used = 3]
            ELSE LET data == LoadU8(b, 8, 16) IN
                 IF data = LoadPanics THEN Panic("ImmediateRegisterMov")
                 ELSE [ins EXCEPT !.data = data[1], !.bytes_used = 2]

\* The arm with the displacement bytes left out of bytes_used.
ImmediateArm_disp_uncounted(ins, disp, data, n) ==
    IF data = LoadPanics \/ (disp # None /\ disp[1] = LoadPanics)
    THEN Panic(ins.form)
    ELSE [ins EXCEPT !.disp = IF disp = None THEN None ELSE Some(disp[1][1]),
                     !.data = data[1],
                     !.bytes_used = IF ins.wide THEN 4 ELSE 3]

\* One arm of the match in try_parse_immediate_register_memory_mov: the
\* tuple (disp, data, bytes_used); any panicking load ends the call.
ImmediateArm(ins, disp, data, n) ==
    IF data = LoadPanics \/ (disp # None /\ disp[1] = LoadPanics)
    THEN Panic(ins.form)
    ELSE [ins EXCEPT !.disp = IF disp = None THEN None ELSE Some(disp[1][1]),
                     !.data = data[1], !.bytes_used = n]

try_parse_immediate_register_memory_mov(b) ==
    \* bits[7], bits[8], bits[9], bits[13..15] are indexed with no length check
    IF Len(b) < 16 THEN Panic("ImmediateRegisterMemoryMov")
    ELSE
        LET wide == Bit(b, 7)
            mod == ModeFrom(Bit(b, 8), Bit(b, 9))
            rm == <<Bit(b, 13), Bit(b, 14), Bit(b, 15)>>
            ins == [Outcome("Ok", "ImmediateRegisterMemoryMov") EXCEPT
                       !.wide = wide, !.mod = mod, !.rm = rm]
        IN  CASE mod = "Displace8Bits" ->
                    ImmediateArm(ins, Some(LoadU8(b, 16, 24)),
                        IF wide THEN LoadU16(b, 24, 40) ELSE LoadU8(b, 24, 32),
                        IF wide THEN 5 ELSE 4)
              [] mod = "Displace16Bits" ->
                    ImmediateArm(ins, Some(LoadU16(b, 16, 32)),
                        IF wide THEN LoadU16(b, 32, 48) ELSE LoadU8(b, 32, 40),
                        IF wide THEN 6 ELSE 5)
              [] mod = "Memory" ->
                    IF rm = Direct
                    THEN ImmediateArm(ins, Some(LoadU16(b, 16, 32)),
                             IF wide THEN LoadU16(b, 32, 48) ELSE LoadU8(b, 32, 40),
                             IF wide THEN 6 ELSE 5)
                    ELSE ImmediateArm(ins, None,
                             IF wide THEN LoadU16(b, 16, 32) ELSE LoadU8(b, 16, 24),
                             IF wide THEN 4 ELSE 3)
              [] mod = "Register" ->
                    ImmediateArm(ins, None,
                        IF wide THEN LoadU16(b, 16, 32) ELSE LoadU8(b, 16, 24),
                        IF wide THEN 4 ELSE 3)

try_parse_memory_accum_mov(b) ==
    \* bits[6], bits[7] are indexed with no length check
    IF Len(b) < 8 THEN Panic("MemoryAccumMov")
    ELSE
        LET wide == Bit(b, 7)
            addr == IF wide THEN LoadU16(b, 8, 24) ELSE LoadU8(b, 8, 16)
        IN  IF addr = LoadPanics THEN Panic("MemoryAccumMov")
            ELSE [Outcome("Ok", "MemoryAccumMov") EXCEPT
                     !.to_memory = Bit(b, 6), !.wide = wide, !.addr = addr[1],
                     !.bytes_used = IF wide THEN 3 ELSE 2]

\* ------------------------------------- instruction.rs: Instruction::try_from
\* One pattern of the match: a tuple of seven entries, "1" for true, "0" for
\* false and "_" for the wildcard.
PatRegisterMemory == <<"1", "0", "0", "0", "1", "0", "_">>
PatImmediateRegister == <<"1", "0", "1", "1", "_", "_", "_">>
\* The pattern on six bits only (the source notes that seven are needed).
PatImmediateRegisterMemory_6bits == <<"1", "1", "0", "0", "0", "1", "_">>
PatImmediateRegisterMemory == <<"1", "1", "0", "0", "0", "1", "1">>
PatMemoryAccum == <<"1", "0", "1", "0", "0", "0", "_">>

\* Whether the leading bits of b match pattern p (b has at least Len(p) bits).
Matches(p, b) ==
    \A i \in 1..Len(p) : (p[i] = "1" => b[i]) /\ (p[i] = "0" => ~b[i])

try_from(b) ==
    \* the scrutinee indexes bits[0]..bits[6]
    IF Len(b) < 7 THEN Panic("none")
    ELSE IF Matches(PatRegisterMemory, b) THEN try_parse_register_memory_mov(b)
    ELSE IF Matches(PatImmediateRegister, b) THEN try_parse_immediate_register_mov(b)
    ELSE IF Matches(PatImmediateRegisterMemory, b)
         THEN try_parse_immediate_register_memory_mov(b)
    ELSE IF Matches(PatMemoryAccum, b) THEN try_parse_memory_accum_mov(b)
    ELSE Panic("none")   \* unimplemented!

\* ------------------------------------------------- main.rs: its decoder
\* main.rs: the 16-bit displacement is bits[16..], loaded as a u16.
main_try_parse_register_memory_mov(b) == register_memory_mov(b, Len(b))

\* main.rs: Instruction::try_from; the match is on six bits and has two arms
\* (try_parse_immediate_register_mov is the same text in both files).
main_try_from(b) ==
    IF Len(b) < 6 THEN Panic("none")
    ELSE IF <<b[1], b[2], b[3], b[4], b[5], b[6]>>
                = <<TRUE, FALSE, FALSE, FALSE, TRUE, FALSE>>
         THEN main_try_parse_register_memory_mov(b)
    ELSE IF <<b[1], b[2], b[3], b[4]>> = <<TRUE, FALSE, TRUE, TRUE>>
         THEN try_parse_immediate_register_mov(b)
    ELSE Panic("none")   \* unimplemented!

\* Instruction::bytes
Bytes_one_more(ins) == ins.bytes_used + 1
Bytes(ins) == ins.bytes_used

\* ------------------------------------------------ main.rs: the renderer
\* A rendering either yields its text or panics.
Text(s) == [ok |-> TRUE, text |-> s]
RenderPanic == [ok |-> FALSE, text |-> ""]

\* impl Display for Register: the variant's name in lower case.
to_string(reg) ==
    [AL |-> "al", AH |-> "ah", AX |-> "ax", BL |-> "bl", BH |-> "bh", BX |-> "bx",
     CL |-> "cl", CH |-> "ch", CX |-> "cx", DL |-> "dl", DH |-> "dh", DX |-> "dx",
     SP |-> "sp", BP |-> "bp", SI |-> "si", DI |-> "di"][reg]

opcode_name == "mov"

\* v as i16 / v as i8 of a u16: the low bits, read as two's complement.
AsI16(v) == IF v % 65536 >= 32768 THEN (v % 65536) - 65536 ELSE v % 65536
AsI8(v) == IF v % 256 >= 128 THEN (v % 256) - 256 ELSE v % 256

deserialize_effective_address(rm, mod, disp) ==
    CASE rm = <<FALSE, FALSE, FALSE>> -> Text("bx + si")
      [] rm = <<FALSE, FALSE, TRUE>> -> Text("bx + di")
      [] rm = <<FALSE, TRUE, FALSE>> -> Text("bp + si")
      [] rm = <<FALSE, TRUE, TRUE>> -> Text("bp + di")
      [] rm = <<TRUE, FALSE, FALSE>> -> Text("si")
      [] rm = <<TRUE, FALSE, TRUE>> -> Text("di")
      [] rm = <<TRUE, TRUE, FALSE>> ->
            IF mod = "Memory"
            THEN IF disp = None THEN RenderPanic   \* disp.unwrap()
                 ELSE Text("[" \o ToString(disp[1]) \o "]")
            ELSE Text("bp")
      [] rm = <<TRUE, TRUE, TRUE>> -> Text("bx")

\* " {op} {signed_val.abs()}": abs of the most negative value overflows,
\* which panics in a build with overflow checks and yields the value itself
\* in a build without them.
SignedSuffix(signed_val, min) ==
    LET op == IF signed_val < 0 THEN "-" ELSE "+" IN
    IF signed_val = min
    THEN {RenderPanic, Text(" " \o op \o " " \o ToString(signed_val))}
    ELSE {Text(" " \o op \o " "
               \o ToString(IF signed_val < 0 THEN 0 - signed_val ELSE signed_val))}

\* The set of results the builds of the program can produce.
deserialize_displacement(mod, disp, wide, signed) ==
    IF mod = "Memory" THEN {Text("")}
    ELSE IF disp = None THEN {RenderPanic}   \* disp.unwrap()
    ELSE IF disp[1] = 0 THEN {Text("")}
    ELSE IF ~signed THEN {Text(" + " \o ToString(disp[1]))}
    ELSE IF wide THEN SignedSuffix(AsI16(disp[1]), 0 - 32768)
    ELSE SignedSuffix(AsI8(disp[1]), 0 - 128)

\* Instruction::to_asm(signed_output): the set of results the builds of the
\* program can produce for the instruction.
to_asm(ins, signed) ==
    CASE ins.form = "RegisterMemoryMov" ->
            LET reg == to_string(ins.reg)
                Line(rm_reg) ==
                    IF ~rm_reg.ok THEN RenderPanic
                    ELSE IF ins.d
                         THEN Text(opcode_name \o " " \o reg \o ", " \o rm_reg.text)
                         ELSE Text(opcode_name \o " " \o rm_reg.text \o ", " \o reg)
            IN  IF ins.mod = "Register"
                THEN {Line(Text(to_string(from_bits(ins.rm, ins.wide))))}
                ELSE LET effective_address ==
                             deserialize_effective_address(ins.rm, ins.mod, ins.disp)
                     IN  {Line(IF ~effective_address.ok \/ ~disp_str.ok THEN RenderPanic
                               ELSE IF SubSeq(effective_address.text, 1, 1) = "["
                                    THEN effective_address
                                    ELSE Text("[" \o effective_address.text
                                                  \o disp_str.text \o "]")) :
                             disp_str \in deserialize_displacement(
                                              ins.mod, ins.disp, ins.wide, signed)}
      [] ins.form = "ImmediateRegisterMov" ->
            {Text(opcode_name \o " " \o to_string(ins.reg) \o ", "
                    \o ToString(IF ins.wide THEN AsI16(ins.data) ELSE AsI8(ins.data)))}

\* ------------------------------------------ instruction.rs: the renderer
\* (deserialize_effective_address is the same text in both files, but for a
\* diagnostic println.)
\* val as i32 of a u16: the value itself.
AsI32(v) == v

\* instruction.rs: deserialize_displacement(mod, disp, wide); the wide arm
\* casts to i32 and the narrow arm to i16.  The set of results the builds of
\* the program can produce.
instr_deserialize_displacement(mod, disp, wide) ==
    IF mod = "Memory" THEN {Text("")}
    ELSE IF disp = None THEN {RenderPanic}   \* disp.unwrap()
    ELSE IF disp[1] = 0 THEN {Text("")}
    ELSE IF wide THEN SignedSuffix(AsI32(disp[1]), 0 - 2147483647 - 1)
    ELSE SignedSuffix(AsI16(disp[1]), 0 - 32768)

\* let (src, dest) = if *d { (rm_reg, reg) } else { (reg, rm_reg) }, as
\* <<dest, src>>, with the operands the wrong way round.
OperandOrder_swapped(d, reg, rm_reg) ==
    IF d THEN <<rm_reg, reg>> ELSE <<reg, rm_reg>>
\* let (src, dest) = if *d { (rm_reg, reg) } else { (reg, rm_reg) }, as
\* <<dest, src>>.
OperandOrder(d, reg, rm_reg) ==
    IF d THEN <<reg, rm_reg>> ELSE <<rm_reg, reg>>

\* The memory operand of to_asm: both helpers are called, then the effective
\* address is used alone when it is bracketed already.
instr_memory_operand(ins) ==
    LET effective_address ==
            deserialize_effective_address(ins.rm, ins.mod, ins.disp)
    IN  {IF ~effective_address.ok \/ ~disp_str.ok THEN RenderPanic
         ELSE IF SubSeq(effective_address.text, 1, 1) = "["
              THEN effective_address
              ELSE Text("[" \o effective_address.text \o disp_str.text \o "]") :
            disp_str \in instr_deserialize_displacement(ins.mod, ins.disp, ins.wide)}

\* instruction.rs: Instruction::to_asm; the set of results the builds of the
\* program can produce for the instruction.
instr_to_asm(ins) ==
    CASE ins.form = "RegisterMemoryMov" ->
            LET rm_regs ==
                    IF ins.mod = "Register"
                    THEN {Text(to_string(from_bits(ins.rm, ins.wide)))}
                    ELSE instr_memory_operand(ins)
            IN  {IF ~rm_reg.ok THEN RenderPanic
                 ELSE LET o == OperandOrder(ins.d, to_string(ins.reg), rm_reg.text)
                      IN  Text(opcode_name \o " " \o o[1] \o ", " \o o[2]) :
                    rm_reg \in rm_regs}
      [] ins.form = "ImmediateRegisterMov" ->
            {Text(opcode_name \o " " \o to_string(ins.reg) \o ", "
                    \o ToString(IF ins.wide THEN AsI16(ins.data) ELSE AsI8(ins.data)))}
      [] ins.form = "ImmediateRegisterMemoryMov" ->
            {IF ~dest.ok THEN RenderPanic
             ELSE Text(opcode_name \o " " \o dest.text \o ", "
                         \o (IF ins.wide THEN "word " ELSE "byte ")
                         \o ToString(ins.data)) :
                dest \in instr_memory_operand(ins)}
      [] ins.form = "MemoryAccumMov" ->
            LET mem == "[" \o ToString(ins.addr) \o "]" IN
            {IF ins.to_memory
             THEN Text(opcode_name \o " " \o mem \o ", " \o "ax")
             ELSE Text(opcode_name \o " " \o "ax" \o ", " \o mem)}

\* ----------------------------------------------- main.rs: disassemble
\* The bytes inputs are made of: opcodes of the four forms and of none, and
\* mode/rm, displacement and data bytes.
InputBytes == {0, 6, 64, 128, 137, 138, 184, 198, 216}

Inputs == UNION {[1..n -> InputBytes] : n \in 0..MaxInputBytes}

\* The `end` chosen for the window: 32, 24 or 16.
WindowEnd(remaining) ==
    IF remaining >= 32 THEN 32
    ELSE IF remaining >= 24 THEN 24
    ELSE 16

RECURSIVE AfterHeader(_)
AfterHeader(lines) ==
    IF lines = <<>> THEN "" ELSE "\n" \o lines[1] \o AfterHeader(Tail(lines))
\* The join with a directive line put first.
Join_with_header(lines) == "bits 16" \o AfterHeader(lines)

RECURSIVE Join(_)
\* strs.join("\n")
Join(lines) ==
    IF lines = <<>> THEN ""
    ELSE IF Len(lines) = 1 THEN lines[1]
    ELSE lines[1] \o "\n" \o Join(Tail(lines))

Init ==
    /\ \E w \in Inputs : input = ViewBits(w)
    /\ signed_output \in BOOLEAN
    /\ bit_ptr = 0
    /\ strs = <<>>
    /\ output = <<>>
    /\ pc = "loop"
    /\ bits = <<>>
    /\ parsed = NotCalled

\* One iteration of `while bit_ptr < input.len()`.
Iterate ==
    /\ pc = "loop"
    /\ bit_ptr < Len(input)
    /\ LET end == WindowEnd(Len(input) - bit_ptr) IN
       IF bit_ptr + end > Len(input)
       THEN \* &input[bit_ptr..bit_ptr + end] is out of range
            /\ pc' = "panic"
            /\ UNCHANGED <<bits, parsed, bit_ptr, strs>>
       ELSE LET current == SubSeq(input, bit_ptr + 1, bit_ptr + end)
                instruction == main_try_from(current)
            IN  /\ bits' = current
                /\ parsed' = instruction
                /\ IF instruction.tag # "Ok"
                   THEN \* the decoder panicked, or unwrap() met an Err
                        /\ pc' = "panic"
                        /\ UNCHANGED <<bit_ptr, strs>>
                   ELSE \E line \in to_asm(instruction, signed_output) :
                            IF ~line.ok
                            THEN /\ pc' = "panic"
                                 /\ UNCHANGED <<bit_ptr, strs>>
                            ELSE /\ strs' = Append(strs, line.text)
                                 /\ bit_ptr' = bit_ptr + Bytes(instruction) * 8
                                 /\ pc' = "loop"
    /\ UNCHANGED <<input, signed_output, output>>

\* The loop condition fails: strs.join("\n") is returned.
Return ==
    /\ pc = "loop"
    /\ bit_ptr >= Len(input)
    /\ output' = <<Join(strs)>>
    /\ pc' = "done"
    /\ UNCHANGED <<bits, parsed, input, signed_output, bit_ptr, strs>>

Next == Iterate \/ Return

Spec == Init /\ [][Next]_vars

\* ------------------------------------------------ the decoder, called alone
\* Windows offered to Instruction::try_from.  Dispatch reads the first byte
\* only, so every first byte is tried with a few mode/rm bytes; the parsers
\* read the flags, the mode/rm byte and the length, so the MOV opcodes are
\* tried with every mode/rm byte.  The bytes after them are a prefix of a
\* payload whose bytes are pairwise distinct.
MovOpcodes == {136, 137, 138, 139, 176, 184, 198, 199, 160, 161, 162, 163}
SomeModRm == {0, 6, 64, 128, 216}
Payloads == {<<52, 18, 254, 128, 7>>, <<0, 1, 2, 3, 4>>, <<0, 128, 254, 1, 9>>}

Min(a, c) == IF a < c THEN a ELSE c

WindowBytes ==
    {<<>>}
    \cup {<<o>> : o \in 0..255}
    \cup {<<o, m>> \o SubSeq(t, 1, k) :
            o \in 0..255, m \in SomeModRm, t \in {<<52, 18, 254, 128, 7>>},
            k \in 0..Min(MaxWindowBytes - 2, 5)}
    \cup {<<o, m>> \o SubSeq(t, 1, k) :
            o \in MovOpcodes, m \in 0..255, t \in Payloads,
            k \in 0..Min(MaxWindowBytes - 2, 5)}

\* A window is whole bytes, or ends four bits into its last byte.
InitDecode ==
    /\ \E w \in WindowBytes, cut \in {0, 4} :
          /\ cut <= 8 * Len(w)
          /\ bits = SubSeq(ViewBits(w), 1, 8 * Len(w) - cut)
    /\ parsed = NotCalled
    /\ pc = "call"
    /\ input = <<>>
    /\ signed_output = FALSE
    /\ bit_ptr = 0
    /\ strs = <<>>
    /\ output = <<>>

\* Instruction::try_from(bits)
Decode ==
    /\ pc = "call"
    /\ parsed' = try_from(bits)
    /\ pc' = IF parsed'.tag = "Panic" THEN "panic" ELSE "returned"
    /\ UNCHANGED <<bits, input, signed_output, bit_ptr, strs, output>>

\* instruction.to_asm() on the instruction the decoder returned.
Render ==
    /\ pc = "returned"
    /\ parsed.tag = "Ok"
    /\ \E r \in instr_to_asm(parsed) :
          /\ pc' = IF r.ok THEN "rendered" ELSE "render_panic"
          /\ output' = IF r.ok THEN <<r.text>> ELSE output
    /\ UNCHANGED <<bits, parsed, input, signed_output, bit_ptr, strs>>

NextDecode == Decode \/ Render

SpecDecode == InitDecode /\ [][NextDecode]_vars

\* ------------------------------------- deserialize_displacement, called alone
\* The arguments are those a decoded instruction carries: an 8-bit value in
\* mode Displace8Bits, a 16-bit value in mode Displace16Bits, none or a 16-bit
\* address in mode Memory, none in mode Register.  They are held in the mod,
\* disp and wide fields of `parsed`.
Disp8Values == {0, 1, 2, 127, 128, 129, 254, 255}
Disp16Values == Disp8Values \cup {256, 32767, 32768, 32769, 65534, 65535}

DisplacementArgs ==
    {<<"Displace8Bits", Some(v)>> : v \in Disp8Values}
    \cup {<<"Displace16Bits", Some(v)>> : v \in Disp16Values}
    \cup {<<"Memory", Some(v)>> : v \in Disp16Values}
    \cup {<<"Memory", None>>, <<"Register", None>>}

InitDisplacement ==
    /\ \E a \in DisplacementArgs, w \in BOOLEAN :
          parsed = [Outcome("Ok", "RegisterMemoryMov") EXCEPT
                       !.mod = a[1], !.disp = a[2], !.wide = w]
    /\ signed_output \in BOOLEAN
    /\ pc = "call"
    /\ bits = <<>>
    /\ input = <<>>
    /\ bit_ptr = 0
    /\ strs = <<>>
    /\ output = <<>>

\* What the call leaves: the suffix returned, or a panic.
Suffixed(r) ==
    /\ pc' = IF r.ok THEN "suffix" ELSE "suffix_panic"
    /\ output' = IF r.ok THEN <<r.text>> ELSE output
    /\ UNCHANGED <<bits, parsed, input, signed_output, bit_ptr, strs>>

\* instruction.rs: deserialize_displacement(mod, disp, wide)
InstrDisplacement ==
    /\ pc = "call"
    /\ \E r \in instr_deserialize_displacement(parsed.mod, parsed.disp, parsed.wide) :
          Suffixed(r)

\* main.rs: deserialize_displacement(mod, disp, wide, signed_output)
MainDisplacement ==
    /\ pc = "call"
    /\ \E r \in deserialize_displacement(
                    parsed.mod, parsed.disp, parsed.wide, signed_output) :
          Suffixed(r)

NextDisplacement == InstrDisplacement \/ MainDisplacement

SpecDisplacement == InitDisplacement /\ [][NextDisplacement]_vars

\* ------------------------------------------------ properties of the decoder
\* Byte k of the window, read independently of the parsers.
ByteAt(k) == MsbValue(bits, 8 * k, 8 * k + 8)
\* The decoder call has ended (returned or panicked).
Called == pc \in {"returned", "panic"}

\* The displacement bytes the encoding tables give for the mode/rm byte m.
DispBytesOf(m) ==
    IF m \div 64 = 1 THEN 1
    ELSE IF m \div 64 = 2 \/ (m \div 64 = 0 /\ m % 8 = 6) THEN 2
    ELSE 0

\* C1: for a first byte 100010dw, every successful decode records 3 bytes
\* for Displace8, 4 for Displace16, 4 for Memory with rm = 110, 2 for the
\* other Memory rm values and for RegisterDirect; a displacement is stored
\* exactly in the 3- and 4-byte cases.
C1_RegisterMemoryByteCount ==
    (pc = "returned" /\ parsed.tag = "Ok" /\ Len(bits) >= 16
        /\ ByteAt(0) \div 4 = 34) =>
        /\ parsed.bytes_used =
              (IF ByteAt(1) \div 64 = 1 THEN 3
               ELSE IF ByteAt(1) \div 64 = 2 THEN 4
               ELSE IF ByteAt(1) \div 64 = 0 /\ ByteAt(1) % 8 = 6 THEN 4
               ELSE 2)
        /\ (parsed.disp # None) <=> (parsed.bytes_used \in {3, 4})

C1_Witness ==
    /\ pc = "returned" /\ parsed.tag = "Ok" /\ Len(bits) >= 16
    /\ ByteAt(0) \div 4 = 34
    /\ parsed.mod = "Memory" /\ parsed.rm = Direct
    /\ parsed.bytes_used = 4 /\ parsed.disp # None

\* C2: for a first byte 1100011w, every successful decode records
\* 2 + displacement bytes + immediate bytes, and the immediate is the byte
\* (w = 0) or the low-byte-first pair of bytes (w = 1) that follows the
\* displacement.
C2_ImmediateMemoryByteCount ==
    (pc = "returned" /\ parsed.tag = "Ok" /\ Len(bits) >= 16
        /\ ByteAt(0) \div 2 = 99) =>
        LET dispBytes == DispBytesOf(ByteAt(1))
            immBytes == IF ByteAt(0) % 2 = 0 THEN 1 ELSE 2
        IN  /\ parsed.bytes_used = 2 + dispBytes + immBytes
            /\ 8 * parsed.bytes_used <= Len(bits)
            /\ parsed.data =
                  (IF immBytes = 1 THEN ByteAt(2 + dispBytes)
                   ELSE ByteAt(2 + dispBytes) + 256 * ByteAt(3 + dispBytes))

C2_Witness ==
    /\ pc = "returned" /\ parsed.tag = "Ok" /\ Len(bits) >= 16
    /\ ByteAt(0) = 199
    /\ parsed.mod = "Displace8Bits" /\ parsed.bytes_used = 5
    /\ parsed.disp = Some(52) /\ parsed.data = 18 + 256 * 254

\* The form whose pattern the first byte o carries, by the opcode table.
FormOf(o) ==
    IF o \div 4 = 34 THEN "RegisterMemoryMov"
    ELSE IF o \div 16 = 11 THEN "ImmediateRegisterMov"
    ELSE IF o \div 2 = 99 THEN "ImmediateRegisterMemoryMov"
    ELSE IF o \div 4 = 40 THEN "MemoryAccumMov"
    ELSE "none"

\* The bits an instruction with first byte o and second byte m occupies, by
\* the encoding tables (0 when o carries no pattern).
NeededBits(o, m) ==
    CASE FormOf(o) = "RegisterMemoryMov" -> 16 + 8 * DispBytesOf(m)
      [] FormOf(o) = "ImmediateRegisterMov" ->
            IF (o \div 8) % 2 = 1 THEN 24 ELSE 16
      [] FormOf(o) = "ImmediateRegisterMemoryMov" ->
            16 + 8 * DispBytesOf(m) + (IF o % 2 = 1 THEN 16 ELSE 8)
      [] FormOf(o) = "MemoryAccumMov" -> IF o % 2 = 1 THEN 24 ELSE 16
      [] OTHER -> 0

FormOfFirstByte == FormOf(ByteAt(0))

\* The bits the form of the window needs for its mode/width combination
\* (the mode/rm byte reads as 0 when the window does not hold it: at least
\* 16 bits are needed then, more than the window has).
BitsNeeded == NeededBits(ByteAt(0), IF Len(bits) >= 16 THEN ByteAt(1) ELSE 0)

\* C3: a window shorter than the matched form needs makes the decoder
\* return a ParseError; the call never aborts on an out-of-range read.
C3_ShortWindowIsParseError ==
    (Called /\ Len(bits) >= 8 /\ FormOfFirstByte # "none"
        /\ Len(bits) < BitsNeeded) =>
        (pc = "returned" /\ parsed.tag = "Err")

\* C4: a first byte that carries none of the four patterns makes the decoder
\* return an error value; the call does not abort.
C4_UnsupportedOpcodeIsError ==
    (Called /\ Len(bits) >= 8 /\ FormOfFirstByte = "none") =>
        (pc = "returned" /\ parsed.tag = "Err")

\* How many of the four patterns the window matches.
PatternsMatched(b) ==
    (IF Matches(PatRegisterMemory, b) THEN 1 ELSE 0)
    + (IF Matches(PatImmediateRegister, b) THEN 1 ELSE 0)
    + (IF Matches(PatImmediateRegisterMemory, b) THEN 1 ELSE 0)
    + (IF Matches(PatMemoryAccum, b) THEN 1 ELSE 0)

\* C10: every first byte matches at most one of the four patterns, and the
\* form the decoder selects is the one the opcode table gives for the byte:
\* 100010dw, 1011wreg, 1100011w, 101000aw, none otherwise.
C10_DispatchExact ==
    (Called /\ Len(bits) >= 8) =>
        /\ PatternsMatched(bits) <= 1
        /\ parsed.form = FormOfFirstByte

C10_Witness ==
    /\ Called /\ Len(bits) >= 8
    /\ ByteAt(0) = 199
    /\ parsed.form = "ImmediateRegisterMemoryMov"

\* ------------------------------------------------ properties of the driver
\* Byte k of the input.
InputByte(k) == MsbValue(input, 8 * k, 8 * k + 8)

\* The bits of the instruction that starts at bit pos of the input, by the
\* encoding tables; 0 when no complete instruction starts there.
InstructionBits(pos) ==
    IF pos + 16 > Len(input) THEN 0
    ELSE LET need == NeededBits(InputByte(pos \div 8), InputByte(pos \div 8 + 1))
         IN  IF pos + need > Len(input) THEN 0 ELSE need

RECURSIVE Starts(_)
\* The offsets at which the complete instructions from bit pos on start.
Starts(pos) ==
    IF pos >= Len(input) \/ InstructionBits(pos) = 0 THEN <<>>
    ELSE <<pos>> \o Starts(pos + InstructionBits(pos))

RECURSIVE Complete(_)
\* The input from bit pos on is a concatenation of complete instructions.
Complete(pos) ==
    IF pos >= Len(input) THEN TRUE
    ELSE InstructionBits(pos) # 0 /\ Complete(pos + InstructionBits(pos))

\* C5: once decoding at the current offset has failed, the run ends in a
\* reported failure, not an abort, and the lines decoded before the failure
\* are its output.
C5_FailedDecodeStopsWithReport ==
    (parsed.tag \in {"Err", "Panic"}) =>
        (pc # "panic" /\ output = <<Join(strs)>>)

\* C6: the offset is a multiple of 8 and never exceeds the bit length of an
\* input of whole bytes.
C6_OffsetAlignedInRange ==
    (Len(input) % 8 = 0) => (bit_ptr % 8 = 0 /\ bit_ptr <= Len(input))

C6_Witness ==
    /\ pc = "loop" /\ Len(strs) = 2
    /\ parsed.tag = "Ok" /\ parsed.bytes_used = 2
    /\ bit_ptr = Len(input) /\ bit_ptr = 32

\* C7: on an input that is a concatenation of complete instructions of the
\* four forms the loop does not abort, and it ends with the offset at the
\* input's bit length and one line per instruction.
C7_CompleteInputTerminates ==
    Complete(0) =>
        /\ pc # "panic"
        /\ pc = "done" => (bit_ptr = Len(input) /\ Len(strs) = Len(Starts(0)))

\* The window length claimed for r remaining bits: the largest of 48, 40,
\* 32, 24, 16 that r allows, and r itself below 16.
ClaimedWindowLen(r) ==
    IF r >= 48 THEN 48 ELSE IF r >= 40 THEN 40 ELSE IF r >= 32 THEN 32
    ELSE IF r >= 24 THEN 24 ELSE IF r >= 16 THEN 16 ELSE r

\* C8: every iteration hands the decoder the window that starts at the
\* current offset and has the claimed length, which never extends beyond the
\* end of the input.
C8_WindowIsCappedCandidate ==
    [][(pc = "loop" /\ bit_ptr < Len(input)) =>
          bits' = SubSeq(input, bit_ptr + 1,
                         bit_ptr + ClaimedWindowLen(Len(input) - bit_ptr))]_vars

\* Where line i starts in the joined output (0-based), each line before it
\* being followed by one newline.
RECURSIVE LineOffset(_)
LineOffset(i) == IF i <= 1 THEN 0 ELSE LineOffset(i - 1) + Len(strs[i - 1]) + 1

\* The line has the form `mov <dest>, <src>`.
IsMovLine(l) ==
    /\ SubSeq(l, 1, 4) = "mov "
    /\ \E k \in 5..(Len(l) - 2) : SubSeq(l, k, k + 1) = ", "

\* The renderings of the instruction that starts at bit pos of the input.
LinesAt(pos) ==
    {r.text : r \in to_asm(main_try_from(
                  SubSeq(input, pos + 1, pos + InstructionBits(pos))), signed_output)}

\* C9 as stated: the returned text is the line `bits 16` followed by the
\* instruction lines.
C9_OutputHasDirective ==
    (pc = "done") => output = <<Join(<<"bits 16">> \o strs)>>

\* C9, amended: the returned text is exactly one line per decoded
\* instruction, in input order, each `mov <dest>, <src>`, the lines
\* separated by single newlines, with no `bits 16` line before them.
C9_OutputIsInstructionLines ==
    (pc = "done") =>
        /\ Len(strs) = Len(Starts(0))
        /\ \A i \in 1..Len(strs) :
              /\ IsMovLine(strs[i])
              /\ strs[i] \in LinesAt(Starts(0)[i])
              /\ SubSeq(output[1], LineOffset(i) + 1, LineOffset(i) + Len(strs[i]))
                    = strs[i]
              /\ i > 1 => SubSeq(output[1], LineOffset(i), LineOffset(i)) = "\n"
        /\ Len(output[1]) =
              (IF strs = <<>> THEN 0 ELSE LineOffset(Len(strs)) + Len(strs[Len(strs)]))
        /\ Len(output[1]) < 7 \/ SubSeq(output[1], 1, 7) # "bits 16"

C9_Witness ==
    /\ pc = "done"
    /\ strs = <<"mov ax, bx", "mov [bx + si + 64], ax">>
    /\ output = <<"mov ax, bx\nmov [bx + si + 64], ax">>

\* ------------------------------------------------ properties of the renderer
\* The two's-complement reading of the low w bits of v.
Signed(v, w) ==
    IF v % Pow2(w) >= Pow2(w - 1) THEN (v % Pow2(w)) - Pow2(w) ELSE v % Pow2(w)

\* The suffix claimed for stored value v: empty for 0, else the sign and the
\* magnitude of v read as 8-bit signed (narrow) or 16-bit signed (wide).
ClaimedSuffix(v, wide) ==
    LET sv == Signed(v, IF wide THEN 16 ELSE 8) IN
    IF v = 0 THEN ""
    ELSE IF sv < 0 THEN " - " \o ToString(0 - sv)
    ELSE " + " \o ToString(sv)

\* C11: in modes Displace8Bits and Displace16Bits the call returns the
\* claimed suffix: empty for 0, else ` + N` / ` - N` by the two's-complement
\* reading of the stored value, N never negative, with no overflow panic for
\* the most negative value.  Stated for the calls in which the width of the
\* instruction is that of the displacement field (8-bit narrow, 16-bit
\* wide), where the claimed reading is the field's own.
C11_SuffixIsSignedMagnitude ==
    (pc \in {"suffix", "suffix_panic"}
        /\ \/ parsed.mod = "Displace8Bits" /\ ~parsed.wide
           \/ parsed.mod = "Displace16Bits" /\ parsed.wide) =>
        (pc = "suffix" /\ output = <<ClaimedSuffix(parsed.disp[1], parsed.wide)>>)

\* The register names by 3-bit code, for each width.
NarrowNames == <<"al", "cl", "dl", "bl", "ah", "ch", "dh", "bh">>
WideNames == <<"ax", "cx", "dx", "bx", "sp", "bp", "si", "di">>
NameOf(code, w) == IF w = 1 THEN WideNames[code + 1] ELSE NarrowNames[code + 1]

\* s is a bracketed operand.
Bracketed(s) ==
    Len(s) >= 3 /\ SubSeq(s, 1, 1) = "[" /\ SubSeq(s, Len(s), Len(s)) = "]"

\* C12: a rendered register/memory line is `mov <dest>, <src>`; with d = 1
\* the reg-field register is the destination and the rm operand the source,
\* with d = 0 the other way round; the rm operand is a register name in
\* mode RegisterDirect and bracketed otherwise.  0x89 0xD8 renders
\* `mov ax, bx` and 0x8A 0x00 renders `mov al, [bx + si]`, 2 bytes each.
C12_OperandOrderByDirection ==
    (pc = "rendered" /\ ByteAt(0) \div 4 = 34) =>
        LET d == (ByteAt(0) \div 2) % 2
            w == ByteAt(0) % 2
            reg == NameOf((ByteAt(1) \div 8) % 8, w)
            line == output[1]
            \* what is left of the line once `mov `, the register and the
            \* comma are taken away on the register's side
            rm == IF d = 1 THEN SubSeq(line, 7 + Len(reg), Len(line))
                  ELSE SubSeq(line, 5, Len(line) - Len(reg) - 2)
        IN  /\ line = (IF d = 1 THEN "mov " \o reg \o ", " \o rm
                       ELSE "mov " \o rm \o ", " \o reg)
            /\ IF ByteAt(1) \div 64 = 3 THEN rm = NameOf(ByteAt(1) % 8, w)
               ELSE Bracketed(rm)
            /\ (ByteAt(0) = 137 /\ ByteAt(1) = 216) =>
                  (line = "mov ax, bx" /\ parsed.bytes_used = 2)
            /\ (ByteAt(0) = 138 /\ ByteAt(1) = 0) =>
                  (line = "mov al, [bx + si]" /\ parsed.bytes_used = 2)

C12_Witness ==
    /\ pc = "rendered"
    /\ ByteAt(0) = 138 /\ ByteAt(1) = 0
    /\ output = <<"mov al, [bx + si]">>

\* The sixteen variants of Register.
RegisterNames ==
    {"AL", "AH", "AX", "BL", "BH", "BX", "CL", "CH", "CX", "DL", "DH", "DX",
     "SP", "BP", "SI", "DI"}
\* The names claimed for codes 000..111, by width.
NarrowRegisters == <<"AL", "CL", "DL", "BL", "AH", "CH", "DH", "BH">>
WideRegisters == <<"AX", "CX", "DX", "BX", "SP", "BP", "SI", "DI">>
\* The three bits of code c, most significant first.
CodeBits(c) == <<c \div 4 = 1, (c \div 2) % 2 = 1, c % 2 = 1>>

\* C13: from_bits is defined on all 16 combinations of code and width, yields
\* one of the 16 register names, is injective within each width, and gives
\* AL,CL,DL,BL,AH,CH,DH,BH (narrow) and AX,CX,DX,BX,SP,BP,SI,DI (wide) for
\* codes 000..111; the register a decoded register/memory instruction
\* carries is the one its reg field and w flag give.
C13_FromBitsTable ==
    /\ \A c \in 0..7, w \in BOOLEAN :
          /\ from_bits(CodeBits(c), w) \in RegisterNames
          /\ from_bits(CodeBits(c), w)
                = (IF w THEN WideRegisters[c + 1] ELSE NarrowRegisters[c + 1])
    /\ \A c1, c2 \in 0..7, w \in BOOLEAN :
          from_bits(CodeBits(c1), w) = from_bits(CodeBits(c2), w) => c1 = c2
    /\ (pc = "returned" /\ parsed.tag = "Ok" /\ ByteAt(0) \div 4 = 34) =>
          parsed.reg = (IF ByteAt(0) % 2 = 1
                        THEN WideRegisters[((ByteAt(1) \div 8) % 8) + 1]
                        ELSE NarrowRegisters[((ByteAt(1) \div 8) % 8) + 1])

C13_Witness ==
    /\ pc = "returned" /\ parsed.tag = "Ok" /\ ByteAt(0) = 137
    /\ (ByteAt(1) \div 8) % 8 = 4
    /\ parsed.reg = "SP"

\* The renderer unwraps the displacement of the instruction: in
\* deserialize_displacement unless the mode is Memory, and in
\* deserialize_effective_address for rm 110 in mode Memory; both are called
\* for the register/memory form outside mode Register and always for the
\* immediate-to-register/memory form.
UnwrapsDisp(ins) ==
    /\ \/ ins.form = "RegisterMemoryMov" /\ ins.mod # "Register"
       \/ ins.form = "ImmediateRegisterMemoryMov"
    /\ \/ ins.mod # "Memory"
       \/ ins.rm = Direct

\* C14: for every instruction the decoder returns, the renderer reads the
\* displacement only when one is stored, and to_asm yields a line.
C14_RenderingNeverFails ==
    /\ (pc = "returned" /\ parsed.tag = "Ok" /\ UnwrapsDisp(parsed)) =>
          parsed.disp # None
    /\ pc # "render_panic"

====
